---------------------------- MODULE Spec2Model ----------------------------
(***************************************************************************)
(* A model of backend/app.py: the Flask API that registers users, issues   *)
(* HS256 session tokens, and stores per-user contacts and secrets in       *)
(* PostgreSQL.                                                             *)
(*                                                                         *)
(* One action is one transaction of a request.  register, login and logout *)
(* are one step each.  A protected route is two: the check of              *)
(* token_required, on a connection of its own, and the view with its       *)
(* statement, on another; the server handles requests in threads, so       *)
(* several requests can be between the two at once.  The store is the three tables of init_database  *)
(* with their constraints (UNIQUE username, NOT NULL columns, SERIAL keys,  *)
(* user_id REFERENCES users(id) ON DELETE CASCADE).                        *)
(*                                                                         *)
(* Text that is matched with ILIKE is a sequence of one-character strings; *)
(* other text is a string.  JSON null / a missing key (Python None) is the *)
(* value None (for sequences) or NoneStr (for strings).  Time is counted   *)
(* in days, the unit of the token lifetime.                                *)
(***************************************************************************)
EXTENDS Integers, Sequences, FiniteSets, Bags, TLC

VARIABLES
    users,       \* rows of table users:    [id, username, password]
    userSeq,     \* last value of the sequence behind users.id
    contacts,    \* rows of table contacts: [id, user_id, name, phone, address]
    contactSeq,  \* last value of the sequence behind contacts.id
    secrets,     \* rows of table secrets
    secretSeq,   \* last value of the sequence behind secrets.id
    now,         \* the clock (datetime.utcnow()), in days
    issued,      \* tokens handed out by register / login, as held by clients
    openConns,   \* connections opened by get_db_connection() and not closed
    calls,       \* the views token_required has called and that have not answered
    resp         \* the last response, with its request

vars == <<users, userSeq, contacts, contactSeq, secrets, secretSeq, now,
          issued, openConns, calls, resp>>

store == <<users, userSeq, contacts, contactSeq, secrets, secretSeq>>

----------------------------------------------------------------------------
(* Bounds of the model.                                                    *)

MaxUserSeq == 2
MaxRows == 2
MaxNow == 7
MaxIssued == 1
MaxOpenConns == 2
MaxInFlight == 2

(* timedelta(days=7): the lifetime of a token.                             *)
TokenDays == 7

----------------------------------------------------------------------------
(* Python values.                                                          *)

None == <<"<None>">>
NoneStr == "<None>"

(* `not x` for a text value: None and the empty text are falsy.            *)
Falsy(x) == x = None \/ x = <<>>
FalsyStr(x) == x = NoneStr \/ x = ""

(* dict.get(key, default) where the key may be absent (Absent), or present *)
(* with JSON null (None).                                                  *)
Absent == <<"<absent>">>
AbsentStr == "<absent>"
GetOr(v, default) == IF v = Absent THEN default ELSE v
GetOrStr(v, default) == IF v = AbsentStr THEN default ELSE v
Get(v) == IF v = Absent THEN None ELSE v
GetStr(v) == IF v = AbsentStr THEN NoneStr ELSE v

----------------------------------------------------------------------------
(* ILIKE: PostgreSQL's case-insensitive LIKE.  In the pattern % matches    *)
(* any run of characters, _ any one character, and a backslash makes the   *)
(* character after it literal.                                             *)

UpperChars == <<"A", "B", "C", "D", "E", "F", "G", "H", "I", "J", "K", "L", "M",
                "N", "O", "P", "Q", "R", "S", "T", "U", "V", "W", "X", "Y", "Z">>
LowerChars == <<"a", "b", "c", "d", "e", "f", "g", "h", "i", "j", "k", "l", "m",
                "n", "o", "p", "q", "r", "s", "t", "u", "v", "w", "x", "y", "z">>

Lower(c) ==
    IF \E i \in 1..Len(UpperChars) : UpperChars[i] = c
    THEN LowerChars[CHOOSE i \in 1..Len(UpperChars) : UpperChars[i] = c]
    ELSE c

RECURSIVE LikeMatch(_, _)
LikeMatch(p, s) ==
    IF p = <<>> THEN s = <<>>
    ELSE IF Head(p) = "%"
         THEN LikeMatch(Tail(p), s) \/ (s # <<>> /\ LikeMatch(p, Tail(s)))
    ELSE IF Head(p) = "_"
         THEN s # <<>> /\ LikeMatch(Tail(p), Tail(s))
    ELSE IF Head(p) = "\\" /\ Len(p) >= 2
         THEN /\ s # <<>>
              /\ Lower(p[2]) = Lower(Head(s))
              /\ LikeMatch(Tail(Tail(p)), Tail(s))
    ELSE /\ s # <<>>
         /\ Lower(Head(p)) = Lower(Head(s))
         /\ LikeMatch(Tail(p), Tail(s))

(* column ILIKE pattern; NULL ILIKE anything is NULL, which WHERE rejects. *)
ILike(col, p) == col # None /\ LikeMatch(p, col)

(* f'%{search}%'                                                           *)
SearchPattern(search) == <<"%">> \o search \o <<"%">>

(* COALESCE(address, '')                                                   *)
Coalesce(v) == IF v = None THEN <<>> ELSE v

----------------------------------------------------------------------------
(* werkzeug.security: a salted one-way hash of the password.               *)

(* The salt is drawn at random; no request compares two hashes, so one    *)
(* value stands for it.                                                    *)
Salts == {"salt"}

generate_password_hash(password, salt) ==
    [method |-> "pbkdf2", salt |-> salt, digest |-> <<salt, password>>]

check_password_hash(pwhash, password) ==
    pwhash.digest = <<pwhash.salt, password>>

----------------------------------------------------------------------------
(* Tokens (PyJWT, HS256).  A token is its payload and the key it was       *)
(* signed with; the signature verifies iff that key is app.secret_key.     *)

SecretKey == "app.secret_key"
OtherKey == "another key"

NoTok == [kind |-> "none", user_id |-> 0, exp |-> 0, key |-> ""]
EmptyTok == [kind |-> "empty", user_id |-> 0, exp |-> 0, key |-> ""]
GarbageTok == [kind |-> "garbage", user_id |-> 0, exp |-> 0, key |-> ""]

(* A token that expires one day early.                                     *)
IssueTokenShort(user_id, t) ==
    [kind |-> "jwt", user_id |-> user_id, exp |-> t + TokenDays - 1, key |-> SecretKey]

(* jwt.encode({'user_id': .., 'exp': utcnow() + timedelta(days=7)}, ..)     *)
IssueToken(user_id, t) ==
    [kind |-> "jwt", user_id |-> user_id, exp |-> t + TokenDays, key |-> SecretKey]

(* An expiry test that lets the token through on the day it expires.       *)
SignatureExpiredStrict(tok, t) == tok.exp < t

(* A decode that does not verify the signature.                            *)
JwtDecodeUnverified(tok, t) ==
    IF tok.kind # "jwt" THEN "DecodeError"
    ELSE IF tok.exp <= t THEN "ExpiredSignatureError"
    ELSE "ok"

(* jwt.decode(token, app.secret_key, algorithms=['HS256']): the structure  *)
(* is parsed first (DecodeError), then the signature is verified           *)
(* (InvalidSignatureError), and only then is exp validated                 *)
(* (ExpiredSignatureError, raised when exp <= now).                        *)
SignatureExpired(tok, t) == tok.exp <= t

JwtDecode(tok, t) ==
    IF tok.kind # "jwt" THEN "DecodeError"
    ELSE IF tok.key # SecretKey THEN "InvalidSignatureError"
    ELSE IF SignatureExpired(tok, t) THEN "ExpiredSignatureError"
    ELSE "ok"

(* The Authorization header: absent, or a text that is the token with or   *)
(* without the prefix 'Bearer '.                                           *)
NoHeader == [present |-> FALSE, bearer |-> FALSE, tok |-> NoTok]
Header(bearer, tok) == [present |-> TRUE, bearer |-> bearer, tok |-> tok]

(* A test that takes a token without the Bearer prefix for no token.       *)
HeaderFalsyUnlessBearer(h) == ~h.present \/ ~h.bearer

(* `not token`: the header is absent or is the empty text.                 *)
HeaderFalsy(h) == ~h.present \/ (~h.bearer /\ h.tok.kind = "empty")

UserById(id) == {u \in users : u.id = id}

(* token_required: the outcome of the wrapper for header h. uid is the id  *)
(* of current_user when the wrapped view is called, and 0 when it is not.  *)
TokenRequired(h) ==
    IF HeaderFalsy(h)
    THEN [status |-> 401, msg |-> "Token is missing", uid |-> 0]
    ELSE LET d == JwtDecode(h.tok, now) IN
         IF d = "ExpiredSignatureError"
         THEN [status |-> 401, msg |-> "Token has expired", uid |-> 0]
         ELSE IF d # "ok"
         THEN [status |-> 401, msg |-> "Invalid token", uid |-> 0]
         ELSE IF UserById(h.tok.user_id) = {}
         THEN [status |-> 401, msg |-> "User not found", uid |-> 0]
         ELSE [status |-> 200, msg |-> "", uid |-> h.tok.user_id]

----------------------------------------------------------------------------
(* Responses.                                                              *)

Resp(op, hdr, uid, id, req, status, msg, body) ==
    [op |-> op, hdr |-> hdr, uid |-> uid, id |-> id, req |-> req,
     status |-> status, msg |-> msg, body |-> body]

NoReq == [none |-> TRUE]
NoBody == [none |-> TRUE]

(* No request is being answered: at startup, and while the environment    *)
(* moves.                                                                  *)
Idle == Resp("idle", NoHeader, 0, 0, NoReq, 0, "", NoBody)

(* The response of a protected route whose view token_required did not     *)
(* call.                                                                   *)
Rejected(op, h, a) == Resp(op, h, 0, 0, NoReq, a.status, a.msg, NoBody)

(* The call f(current_user, ..) of token_required: the route, the header   *)
(* of the request and the row SELECT id, username of the user.  The calls  *)
(* in progress are a bag: two requests can be alike.                       *)
Call(op, h, user) == [op |-> op, hdr |-> h, user |-> user]

(* The calls in progress once the view of `call` has answered.             *)
Returned(call) == calls (-) SetToBag({call})

ContactOps ==
    {"get_contacts", "add_contact", "update_contact", "delete_contact",
     "export_contacts"}
SecretOps ==
    {"get_secrets", "get_secret", "add_secret", "update_secret", "delete_secret"}
ProtectedOps == {"current_user"} \cup ContactOps \cup SecretOps

----------------------------------------------------------------------------
(* Startup: init_database() creates the empty tables and                   *)
(* create_default_admin() inserts the user admin / admin.                  *)

Init ==
    /\ \E salt \in Salts :
         users = {[id |-> 1, username |-> "admin",
                   password |-> generate_password_hash("admin", salt)]}
    /\ userSeq = 1
    /\ contacts = {}
    /\ contactSeq = 0
    /\ secrets = {}
    /\ secretSeq = 0
    /\ now = 0
    /\ issued = {}
    /\ openConns = 0
    /\ calls = EmptyBag
    /\ resp = Idle

----------------------------------------------------------------------------
(* Authentication endpoints.                                               *)

(* The column without its UNIQUE constraint.                               *)
UsernameNeverTaken(u) == FALSE

(* username VARCHAR(100) UNIQUE: the INSERT fails when the name is taken.  *)
UsernameTaken(u) == \E x \in users : x.username = u

(* A token handed to a client, with the time and the username it was      *)
(* issued for.                                                             *)
Handed(tok, username) == [tok |-> tok, iat |-> now, username |-> username]

(* POST /api/register *)
Register(username, password, salt) ==
    LET u == GetStr(username)
        p == GetStr(password)
        req == [username |-> u, password |-> p]
    IN
    IF FalsyStr(u) \/ FalsyStr(p)
    THEN /\ resp' = Resp("register", NoHeader, 0, 0, req, 400,
                         "Username and password required", NoBody)
         /\ UNCHANGED <<store, now, issued, openConns, calls>>
    ELSE /\ userSeq < MaxUserSeq
         /\ userSeq' = userSeq + 1
         /\ IF UsernameTaken(u)
            THEN \* psycopg2.IntegrityError: rollback
                 /\ resp' = Resp("register", NoHeader, 0, 0, req, 400,
                                 "Username already exists", NoBody)
                 /\ UNCHANGED <<users, issued>>
            ELSE LET id == userSeq + 1
                     tok == IssueToken(id, now)
                 IN
                 /\ Cardinality(issued \cup {Handed(tok, u)}) <= MaxIssued
                 /\ users' = users \cup
                        {[id |-> id, username |-> u,
                          password |-> generate_password_hash(p, salt)]}
                 /\ issued' = issued \cup {Handed(tok, u)}
                 /\ resp' = Resp("register", NoHeader, 0, 0, req, 200,
                                 "Registration successful",
                                 [token |-> tok, username |-> u])
         /\ UNCHANGED <<contacts, contactSeq, secrets, secretSeq, now, openConns, calls>>

(* POST /api/login *)
Login(username, password) ==
    LET u == GetStr(username)
        p == GetStr(password)
        req == [username |-> u]
        found == {x \in users : x.username = u}
    IN
    IF found = {}
    THEN /\ resp' = Resp("login", NoHeader, 0, 0, req, 401,
                         "Invalid username or password", NoBody)
         /\ UNCHANGED <<store, now, issued, openConns, calls>>
    ELSE LET user == CHOOSE x \in found : TRUE IN
         IF p = NoneStr
         THEN \* check_password_hash(.., None) raises AttributeError
              /\ resp' = Resp("login", NoHeader, 0, 0, req, 500,
                              "Internal Server Error", NoBody)
              /\ UNCHANGED <<store, now, issued, openConns, calls>>
         ELSE IF check_password_hash(user.password, p)
         THEN LET tok == IssueToken(user.id, now) IN
              /\ Cardinality(issued \cup {Handed(tok, user.username)}) <= MaxIssued
              /\ issued' = issued \cup {Handed(tok, user.username)}
              /\ resp' = Resp("login", NoHeader, 0, 0, req, 200, "Login successful",
                              [token |-> tok, username |-> user.username])
              /\ UNCHANGED <<store, now, openConns, calls>>
         ELSE /\ resp' = Resp("login", NoHeader, 0, 0, req, 401,
                              "Invalid username or password", NoBody)
              /\ UNCHANGED <<store, now, issued, openConns, calls>>

(* POST /api/logout *)
Logout ==
    /\ resp' = Resp("logout", NoHeader, 0, 0, NoReq, 200, "Logged out", NoBody)
    /\ UNCHANGED <<store, now, issued, openConns, calls>>

(* @token_required, the function `decorated` of a protected route: it      *)
(* reads the header, decodes the token and selects the user on a           *)
(* connection of its own, which it closes (46-51); then it answers 401 or  *)
(* calls the view with the user's row.  The view connects again for its    *)
(* statement, so that is another step: other sessions commit and other     *)
(* requests are checked and answered between the two.                      *)
Decorated(op, h) ==
    LET a == TokenRequired(h) IN
    /\ IF a.status # 200
       THEN /\ resp' = Rejected(op, h, a)
            /\ calls' = calls
       ELSE LET u == CHOOSE x \in users : x.id = a.uid IN
            /\ BagCardinality(calls) < MaxInFlight
            /\ calls' = calls (+) SetToBag({Call(op, h, [id |-> u.id, username |-> u.username])})
            /\ resp' = resp
    /\ UNCHANGED <<store, now, issued, openConns>>

(* GET /api/current_user: the view answers from the row it was called      *)
(* with.                                                                   *)
CurrentUser(call) ==
    /\ BagIn(call, calls)
    /\ call.op = "current_user"
    /\ calls' = Returned(call)
    /\ resp' = Resp("current_user", call.hdr, call.user.id, 0, NoReq, 200, "",
                    [username |-> call.user.username])
    /\ UNCHANGED <<store, now, issued, openConns>>

----------------------------------------------------------------------------
(* A statement raised an exception the view does not catch: Flask answers  *)
(* 500, and the lines after the statement (cur.close(), conn.close()) are  *)
(* not run, so the connection of the view stays open.                      *)

Unhandled(op, h, uid, id, req) ==
    /\ openConns < MaxOpenConns
    /\ openConns' = openConns + 1
    /\ resp' = Resp(op, h, uid, id, req, 500, "Internal Server Error", NoBody)

----------------------------------------------------------------------------
(* The WHERE clause without its AND user_id = %s.                          *)
WhereIdOnly(rows, id, uid) == {r \in rows : r.id = id}

(* WHERE id = %s AND user_id = %s: the rows an UPDATE, a DELETE or the     *)
(* SELECT of get_secret acts on.                                           *)
WhereIdAndUser(rows, id, uid) == {r \in rows : r.id = id /\ r.user_id = uid}

----------------------------------------------------------------------------
(* Contacts endpoints: the views, called by token_required with the row    *)
(* call.user as current_user.                                              *)

OwnContacts(uid) == {c \in contacts : c.user_id = uid}

(* SELECT id, name, phone, address *)
ContactRow(c) == [id |-> c.id, name |-> c.name, phone |-> c.phone, address |-> c.address]

(* name ILIKE %s OR phone ILIKE %s OR COALESCE(address, '') ILIKE %s *)
ContactMatches(c, search) ==
    LET p == SearchPattern(search) IN
    \/ ILike(c.name, p)
    \/ ILike(c.phone, p)
    \/ ILike(Coalesce(c.address), p)

(* The rows of the listing; ORDER BY name only arranges them.              *)
ListContacts(uid, search) ==
    IF search # <<>>
    THEN {ContactRow(c) : c \in {x \in OwnContacts(uid) : ContactMatches(x, search)}}
    ELSE {ContactRow(c) : c \in OwnContacts(uid)}

(* GET /api/contacts?search= *)
GetContacts(call, search) ==
    LET uid == call.user.id
        req == [search |-> search]
    IN
    /\ BagIn(call, calls)
    /\ call.op = "get_contacts"
    /\ calls' = Returned(call)
    /\ resp' = Resp("get_contacts", call.hdr, uid, 0, req, 200, "",
                    ListContacts(uid, search))
    /\ UNCHANGED <<store, now, issued, openConns>>

(* POST /api/contacts *)
AddContact(call, name, phone, address) ==
    LET uid == call.user.id
        h == call.hdr
        req == [name |-> Get(name), phone |-> Get(phone),
                address |-> GetOr(address, <<>>)]
    IN
    /\ BagIn(call, calls)
    /\ call.op = "add_contact"
    /\ calls' = Returned(call)
    /\ IF Falsy(req.name) \/ Falsy(req.phone)
       THEN /\ resp' = Resp("add_contact", h, uid, 0, req, 400,
                            "Name and phone required", NoBody)
            /\ UNCHANGED <<store, now, issued, openConns>>
       ELSE /\ contactSeq + secretSeq < MaxRows
            /\ contactSeq' = contactSeq + 1
            /\ IF UserById(uid) = {}
               THEN \* user_id REFERENCES users(id): psycopg2.IntegrityError
                    /\ Unhandled("add_contact", h, uid, 0, req)
                    /\ UNCHANGED contacts
               ELSE /\ contacts' = contacts \cup
                          {[id |-> contactSeq + 1, user_id |-> uid, name |-> req.name,
                            phone |-> req.phone, address |-> req.address]}
                    /\ resp' = Resp("add_contact", h, uid, 0, req, 200,
                                    "Contact added successfully", NoBody)
                    /\ UNCHANGED openConns
            /\ UNCHANGED <<users, userSeq, secrets, secretSeq, now, issued>>

(* PUT /api/contacts/<int:contact_id> *)
UpdateContact(call, id, name, phone, address) ==
    LET uid == call.user.id
        h == call.hdr
        req == [name |-> Get(name), phone |-> Get(phone),
                address |-> GetOr(address, <<>>)]
        matched == WhereIdAndUser(contacts, id, uid)
    IN
    /\ BagIn(call, calls)
    /\ call.op = "update_contact"
    /\ calls' = Returned(call)
    /\ IF matched = {}
       THEN /\ resp' = Resp("update_contact", h, uid, id, req, 404,
                            "Contact not found", NoBody)
            /\ UNCHANGED <<store, now, issued, openConns>>
       ELSE IF req.name = None \/ req.phone = None
       THEN \* name and phone are NOT NULL: psycopg2.IntegrityError
            /\ Unhandled("update_contact", h, uid, id, req)
            /\ UNCHANGED <<store, now, issued>>
       ELSE /\ contacts' = (contacts \ matched) \cup
                   {[c EXCEPT !.name = req.name, !.phone = req.phone,
                              !.address = req.address] : c \in matched}
            /\ resp' = Resp("update_contact", h, uid, id, req, 200,
                            "Contact updated successfully", NoBody)
            /\ UNCHANGED <<users, userSeq, contactSeq, secrets, secretSeq, now,
                           issued, openConns>>

(* DELETE /api/contacts/<int:contact_id> *)
DeleteContact(call, id) ==
    LET uid == call.user.id
        h == call.hdr
        matched == WhereIdAndUser(contacts, id, uid)
    IN
    /\ BagIn(call, calls)
    /\ call.op = "delete_contact"
    /\ calls' = Returned(call)
    /\ IF matched = {}
       THEN /\ resp' = Resp("delete_contact", h, uid, id, NoReq, 404,
                            "Contact not found", NoBody)
            /\ UNCHANGED <<store, now, issued, openConns>>
       ELSE /\ contacts' = contacts \ matched
            /\ resp' = Resp("delete_contact", h, uid, id, NoReq, 200,
                            "Contact deleted successfully", NoBody)
            /\ UNCHANGED <<users, userSeq, contactSeq, secrets, secretSeq, now,
                           issued, openConns>>

(* SELECT name, phone, address; csv.DictWriter writes None as the empty    *)
(* text.                                                                   *)
CsvRow(c) == [name |-> c.name, phone |-> c.phone, address |-> Coalesce(c.address)]

(* writer.writerow(contact) for each contact: the lines of the CSV under   *)
(* its header line, each with the number of times it is written (ORDER BY  *)
(* name only arranges them).                                               *)
CsvLines(uid) ==
    [r \in {CsvRow(c) : c \in OwnContacts(uid)} |->
        Cardinality({c \in OwnContacts(uid) : CsvRow(c) = r})]

(* GET /api/contacts/export *)
ExportContacts(call) ==
    /\ BagIn(call, calls)
    /\ call.op = "export_contacts"
    /\ calls' = Returned(call)
    /\ resp' = Resp("export_contacts", call.hdr, call.user.id, 0, NoReq, 200, "",
                    CsvLines(call.user.id))
    /\ UNCHANGED <<store, now, issued, openConns>>

----------------------------------------------------------------------------
(* Secrets endpoints.                                                      *)

OwnSecrets(uid) == {x \in secrets : x.user_id = uid}

(* A listing that selects every column of the secret.                      *)
SecretListRowAll(x) ==
    [id |-> x.id, title |-> x.title, category |-> x.category,
     username |-> x.username, password |-> x.password, api_key |-> x.api_key,
     url |-> x.url, notes |-> x.notes, created_at |-> x.created_at]

(* SELECT id, title, category, username, url, created_at *)
SecretListRow(x) ==
    [id |-> x.id, title |-> x.title, category |-> x.category,
     username |-> x.username, url |-> x.url, created_at |-> x.created_at]

(* SELECT id, title, category, username, password, api_key, url, notes,    *)
(* created_at                                                              *)
SecretRow(x) ==
    [id |-> x.id, title |-> x.title, category |-> x.category,
     username |-> x.username, password |-> x.password, api_key |-> x.api_key,
     url |-> x.url, notes |-> x.notes, created_at |-> x.created_at]

(* title ILIKE %s OR username ILIKE %s OR url ILIKE %s *)
SecretMatches(x, search) ==
    LET p == SearchPattern(search) IN
    \/ ILike(x.title, p)
    \/ ILike(x.username, p)
    \/ ILike(x.url, p)

(* The rows of the listing; ORDER BY created_at DESC only arranges them.   *)
ListSecrets(uid, search, category) ==
    {SecretListRow(x) :
        x \in {y \in OwnSecrets(uid) :
                 /\ search # <<>> => SecretMatches(y, search)
                 /\ category # "" => y.category = category}}

(* GET /api/secrets?search=&category= *)
GetSecrets(call, search, category) ==
    LET uid == call.user.id
        req == [search |-> search, category |-> category]
    IN
    /\ BagIn(call, calls)
    /\ call.op = "get_secrets"
    /\ calls' = Returned(call)
    /\ resp' = Resp("get_secrets", call.hdr, uid, 0, req, 200, "",
                    ListSecrets(uid, search, category))
    /\ UNCHANGED <<store, now, issued, openConns>>

(* GET /api/secrets/<int:secret_id> *)
GetSecret(call, id) ==
    LET uid == call.user.id
        matched == WhereIdAndUser(secrets, id, uid)
    IN
    /\ BagIn(call, calls)
    /\ call.op = "get_secret"
    /\ calls' = Returned(call)
    /\ IF matched = {}
       THEN resp' = Resp("get_secret", call.hdr, uid, id, NoReq, 404,
                         "Secret not found", NoBody)
       ELSE resp' = Resp("get_secret", call.hdr, uid, id, NoReq, 200, "",
                         SecretRow(CHOOSE x \in matched : TRUE))
    /\ UNCHANGED <<store, now, issued, openConns>>

(* The fields of a POST or PUT body, as the views read them.               *)
SecretFields(f) ==
    [title |-> Get(f.title),
     category |-> GetOrStr(f.category, "general"),
     username |-> GetOr(f.username, <<>>),
     password |-> GetOrStr(f.password, ""),
     api_key |-> GetOrStr(f.api_key, ""),
     url |-> GetOr(f.url, <<>>),
     notes |-> GetOrStr(f.notes, "")]

(* POST /api/secrets *)
AddSecret(call, f) ==
    LET uid == call.user.id
        h == call.hdr
        req == SecretFields(f)
    IN
    /\ BagIn(call, calls)
    /\ call.op = "add_secret"
    /\ calls' = Returned(call)
    /\ IF Falsy(req.title)
       THEN /\ resp' = Resp("add_secret", h, uid, 0, req, 400,
                            "Title is required", NoBody)
            /\ UNCHANGED <<store, now, issued, openConns>>
       ELSE /\ contactSeq + secretSeq < MaxRows
            /\ secretSeq' = secretSeq + 1
            /\ IF UserById(uid) = {}
               THEN \* user_id REFERENCES users(id): psycopg2.IntegrityError
                    /\ Unhandled("add_secret", h, uid, 0, req)
                    /\ UNCHANGED secrets
               ELSE /\ secrets' = secrets \cup
                          {[id |-> secretSeq + 1, user_id |-> uid, title |-> req.title,
                            category |-> req.category, username |-> req.username,
                            password |-> req.password, api_key |-> req.api_key,
                            url |-> req.url, notes |-> req.notes,
                            created_at |-> now, updated_at |-> now]}
                    /\ resp' = Resp("add_secret", h, uid, 0, req, 200,
                                    "Secret added successfully", NoBody)
                    /\ UNCHANGED openConns
            /\ UNCHANGED <<users, userSeq, contacts, contactSeq, now, issued>>

(* PUT /api/secrets/<int:secret_id> *)
UpdateSecret(call, id, f) ==
    LET uid == call.user.id
        h == call.hdr
        req == SecretFields(f)
        matched == WhereIdAndUser(secrets, id, uid)
    IN
    /\ BagIn(call, calls)
    /\ call.op = "update_secret"
    /\ calls' = Returned(call)
    /\ IF Falsy(req.title)
       THEN /\ resp' = Resp("update_secret", h, uid, id, req, 400,
                            "Title is required", NoBody)
            /\ UNCHANGED <<store, now, issued, openConns>>
       ELSE IF matched = {}
       THEN /\ resp' = Resp("update_secret", h, uid, id, req, 404,
                            "Secret not found", NoBody)
            /\ UNCHANGED <<store, now, issued, openConns>>
       ELSE /\ secrets' = (secrets \ matched) \cup
                   {[x EXCEPT !.title = req.title, !.category = req.category,
                              !.username = req.username, !.password = req.password,
                              !.api_key = req.api_key, !.url = req.url,
                              !.notes = req.notes] : x \in matched}
            /\ resp' = Resp("update_secret", h, uid, id, req, 200,
                            "Secret updated successfully", NoBody)
            /\ UNCHANGED <<users, userSeq, contacts, contactSeq, secretSeq, now,
                           issued, openConns>>

(* DELETE /api/secrets/<int:secret_id> *)
DeleteSecret(call, id) ==
    LET uid == call.user.id
        h == call.hdr
        matched == WhereIdAndUser(secrets, id, uid)
    IN
    /\ BagIn(call, calls)
    /\ call.op = "delete_secret"
    /\ calls' = Returned(call)
    /\ IF matched = {}
       THEN /\ resp' = Resp("delete_secret", h, uid, id, NoReq, 404,
                            "Secret not found", NoBody)
            /\ UNCHANGED <<store, now, issued, openConns>>
       ELSE /\ secrets' = secrets \ matched
            /\ resp' = Resp("delete_secret", h, uid, id, NoReq, 200,
                            "Secret deleted successfully", NoBody)
            /\ UNCHANGED <<users, userSeq, contacts, contactSeq, secretSeq, now,
                           issued, openConns>>

----------------------------------------------------------------------------
(* The environment.                                                        *)

(* Time passes.  The clock is observed at the instants Clock: startup, the *)
(* last day on which a token issued at startup is valid, the day it        *)
(* expires, and the days after.                                            *)
Clock == {0} \cup ((TokenDays - 1)..MaxNow)

Tick(t) ==
    /\ t \in Clock
    /\ t > now
    /\ now' = t
    /\ resp' = Idle
    /\ UNCHANGED <<store, issued, openConns, calls>>

(* The client that holds a token throws it away.                           *)
Discard(i) ==
    /\ i \in issued
    /\ issued' = issued \ {i}
    /\ resp' = Idle
    /\ UNCHANGED <<store, now, openConns, calls>>

(* A user row is deleted in the database (the API has no such endpoint);   *)
(* contacts.user_id and secrets.user_id are declared ON DELETE CASCADE.    *)
DropUser(id) ==
    /\ \E u \in users : u.id = id
    /\ users' = {u \in users : u.id # id}
    /\ contacts' = {c \in contacts : c.user_id # id}
    /\ secrets' = {s \in secrets : s.user_id # id}
    /\ resp' = Idle
    /\ UNCHANGED <<userSeq, contactSeq, secretSeq, now, issued, openConns, calls>>

----------------------------------------------------------------------------
(* Requests a client can send.                                             *)

(* Tokens a client can present: the ones it was handed, those with one     *)
(* field changed (which no longer carry the server's signature), an empty  *)
(* text and a text that is no JWT.                                         *)
IssuedToks == {i.tok : i \in issued}
ForgedToks ==
    {[t EXCEPT !.key = OtherKey] : t \in IssuedToks}
    \cup {[kind |-> "jwt", user_id |-> 1, exp |-> 1, key |-> OtherKey]}

AuthHeaders ==
    {NoHeader}
    \cup {Header(b, t) : b \in BOOLEAN, t \in IssuedToks \cup {EmptyTok}}
    \cup {Header(TRUE, t) : t \in ForgedToks \cup {GarbageTok}}

(* Bodies of POST /api/register and /api/login: <<username, password>>.    *)
Registrations ==
    {<<"admin", "pw">>, <<"bob", "pw">>, <<"", "pw">>, <<"bob", AbsentStr>>}
Logins ==
    {<<"admin", "admin">>, <<"admin", "pw">>, <<"bob", "pw">>, <<AbsentStr, "pw">>,
     <<"admin", AbsentStr>>}

NextAuth ==
    \/ now = 0 /\ \E r \in Registrations, s \in Salts : Register(r[1], r[2], s)
    \/ now = 0 /\ \E l \in Logins : Login(l[1], l[2])
    \/ Logout
    \/ \E h \in AuthHeaders : Decorated("current_user", h)
    \/ \E call \in BagToSet(calls) : CurrentUser(call)
    \/ \E t \in Clock : Tick(t)
    \/ \E i \in issued : Discard(i)
    \/ \E id \in 1..MaxUserSeq : DropUser(id)

SpecAuth == Init /\ [][NextAuth]_vars

(* Requests sent one after another: each is answered before the next is   *)
(* sent.  The specifications below that send their requests so have no     *)
(* step that deletes a user or moves the clock, which is all a view can    *)
(* see of what happened since its check.                                   *)
Serial == calls = EmptyBag

(* Contacts, for the user admin. *)
DataHeaders == {NoHeader} \cup {Header(TRUE, t) : t \in IssuedToks}

NameA == <<"a">>
NameAb == <<"A", "b">>
NameSlash == <<"a", "\\">>
Phone1 == <<"1">>
Phone2 == <<"2">>

(* Bodies of POST and PUT /api/contacts: <<name, phone, address>>.         *)
NewContacts ==
    {<<NameA, Phone1, Absent>>, <<NameAb, Phone1, Absent>>,
     <<NameSlash, Phone1, Absent>>, <<<<>>, Phone1, Absent>>,
     <<NameA, Absent, Absent>>, <<NameAb, Phone2, None>>}
ContactUpdates ==
    {<<NameA, Phone2, Absent>>, <<<<>>, Phone2, Absent>>, <<Absent, Phone2, Absent>>,
     <<NameA, <<>>, Absent>>, <<NameA, Absent, Absent>>}

NextContacts ==
    \/ Serial /\ \E p \in {"admin", "pw"} : Login("admin", p)
    \/ Serial /\ \E op \in ContactOps, h \in DataHeaders : Decorated(op, h)
    \/ \E call \in BagToSet(calls), s \in {<<>>, NameA, NameAb, NameSlash} : GetContacts(call, s)
    \/ \E call \in BagToSet(calls), c \in NewContacts : AddContact(call, c[1], c[2], c[3])
    \/ \E call \in BagToSet(calls), id \in 1..MaxRows, c \in ContactUpdates :
         UpdateContact(call, id, c[1], c[2], c[3])
    \/ \E call \in BagToSet(calls), id \in 1..MaxRows : DeleteContact(call, id)
    \/ \E call \in BagToSet(calls) : ExportContacts(call)

SpecContacts == Init /\ [][NextContacts]_vars

(* Secrets, for the user admin. *)
SecretBody(title, category, username, password, api_key, url, notes) ==
    [title |-> title, category |-> category, username |-> username,
     password |-> password, api_key |-> api_key, url |-> url, notes |-> notes]

UrlX == <<"x">>

NewSecrets ==
    {SecretBody(NameA, AbsentStr, Absent, "hunter2", AbsentStr, Absent, AbsentStr),
     SecretBody(NameAb, "work", NameA, "hunter2", "key-1", UrlX, "note"),
     SecretBody(<<>>, "work", Absent, "hunter2", AbsentStr, Absent, AbsentStr),
     SecretBody(Absent, AbsentStr, Absent, AbsentStr, AbsentStr, Absent, AbsentStr)}
SecretUpdates ==
    {SecretBody(NameAb, AbsentStr, Absent, "changed", AbsentStr, Absent, AbsentStr),
     SecretBody(<<>>, "work", Absent, "changed", AbsentStr, Absent, AbsentStr),
     SecretBody(Absent, AbsentStr, Absent, "changed", AbsentStr, Absent, AbsentStr)}

NextSecrets ==
    \/ Serial /\ \E p \in {"admin", "pw"} : Login("admin", p)
    \/ Serial /\ \E op \in SecretOps, h \in DataHeaders : Decorated(op, h)
    \/ \E call \in BagToSet(calls), s \in {<<>>, NameA, UrlX}, c \in {"", "work"} :
         GetSecrets(call, s, c)
    \/ \E call \in BagToSet(calls), id \in 1..MaxRows : GetSecret(call, id)
    \/ \E call \in BagToSet(calls), f \in NewSecrets : AddSecret(call, f)
    \/ \E call \in BagToSet(calls), id \in 1..MaxRows, f \in SecretUpdates : UpdateSecret(call, id, f)
    \/ \E call \in BagToSet(calls), id \in 1..MaxRows : DeleteSecret(call, id)

SpecSecrets == Init /\ [][NextSecrets]_vars

(* Contacts and secrets of two owners, admin and bob, at one instant.      *)
OneContact == <<NameA, Phone1, Absent>>
OneContactUpdate == <<NameAb, Phone2, Absent>>
OneSecret == SecretBody(NameA, AbsentStr, Absent, "hunter2", AbsentStr, Absent, AbsentStr)
OneSecretUpdate == SecretBody(NameAb, "work", Absent, "changed", AbsentStr, Absent, AbsentStr)

(* Each request carries a token its sender was handed.                     *)
OwnerHeaders == {Header(TRUE, t) : t \in IssuedToks}
NoTitleUpdate == SecretBody(<<>>, "work", Absent, "changed", AbsentStr, Absent, AbsentStr)

NextOwners ==
    \/ Serial /\ (\A u \in users : u.username # "bob") /\ Register("bob", "pw", "salt")
    \/ Serial /\ Login("admin", "admin")
    \/ Serial /\ Login("bob", "pw")
    \/ Serial /\ \E i \in issued : Discard(i)
    \/ Serial /\ \E op \in ContactOps \cup SecretOps, h \in OwnerHeaders : Decorated(op, h)
    \/ \E call \in BagToSet(calls) : GetContacts(call, <<>>)
    \/ \E call \in BagToSet(calls) : AddContact(call, OneContact[1], OneContact[2], OneContact[3])
    \/ \E call \in BagToSet(calls), id \in 1..MaxRows :
         UpdateContact(call, id, OneContactUpdate[1], OneContactUpdate[2], OneContactUpdate[3])
    \/ \E call \in BagToSet(calls), id \in 1..MaxRows : DeleteContact(call, id)
    \/ \E call \in BagToSet(calls) : ExportContacts(call)
    \/ \E call \in BagToSet(calls) : GetSecrets(call, <<>>, "")
    \/ \E call \in BagToSet(calls), id \in 1..MaxRows : GetSecret(call, id)
    \/ \E call \in BagToSet(calls) : AddSecret(call, OneSecret)
    \/ \E call \in BagToSet(calls), id \in 1..MaxRows, f \in {OneSecretUpdate, NoTitleUpdate} :
         UpdateSecret(call, id, f)
    \/ \E call \in BagToSet(calls), id \in 1..MaxRows : DeleteSecret(call, id)

SpecOwners == Init /\ [][NextOwners]_vars

(* Every protected endpoint, for the user admin with a token of the first  *)
(* day, over time and while the user row is deleted.                       *)
GateHeaders == {Header(TRUE, t) : t \in IssuedToks}
BadHeaders ==
    {NoHeader, Header(TRUE, GarbageTok)}
    \cup {Header(TRUE, [t EXCEPT !.key = OtherKey]) : t \in IssuedToks}

NextGate ==
    \/ now = 0 /\ Login("admin", "admin")
    \/ Tick(TokenDays)
    \/ DropUser(1)
    \/ \E op \in ProtectedOps, h \in GateHeaders : Decorated(op, h)
    \/ \E op \in {"current_user", "add_contact"}, h \in BadHeaders : Decorated(op, h)
    \/ \E call \in BagToSet(calls) : CurrentUser(call)
    \/ \E call \in BagToSet(calls) : GetContacts(call, <<>>)
    \/ \E call \in BagToSet(calls) : AddContact(call, OneContact[1], OneContact[2], OneContact[3])
    \/ \E call \in BagToSet(calls) :
         UpdateContact(call, 1, OneContact[1], OneContact[2], OneContact[3])
    \/ \E call \in BagToSet(calls) : DeleteContact(call, 1)
    \/ \E call \in BagToSet(calls) : ExportContacts(call)
    \/ \E call \in BagToSet(calls) : GetSecrets(call, <<>>, "")
    \/ \E call \in BagToSet(calls) : GetSecret(call, 1)
    \/ \E call \in BagToSet(calls) : AddSecret(call, OneSecret)
    \/ \E call \in BagToSet(calls) : UpdateSecret(call, 1, OneSecret)
    \/ \E call \in BagToSet(calls) : DeleteSecret(call, 1)

SpecGate == Init /\ [][NextGate]_vars

----------------------------------------------------------------------------
(* Properties.                                                             *)

(* The steps of a protected request: token_required answers 401           *)
(* (Refused) or calls the view (Called), and the view answers (Answered).  *)
Refused == calls' = calls /\ resp' # resp /\ resp'.op \in ProtectedOps
Called == BagCardinality(calls') > BagCardinality(calls)
Answered == BagCardinality(calls') < BagCardinality(calls)

(* The call made, and the call answered, in such a step.                   *)
NewCall == CHOOSE c \in BagToSet(calls') : CopiesIn(c, calls') > CopiesIn(c, calls)
OldCall == CHOOSE c \in BagToSet(calls) : CopiesIn(c, calls) > CopiesIn(c, calls')

(* The header carries a token with the server's signature that is not      *)
(* expired and names a user of the store.                                  *)
Valid(h) ==
    /\ h.present
    /\ h.tok.kind = "jwt"
    /\ h.tok.key = SecretKey
    /\ now < h.tok.exp
    /\ \E u \in users : u.id = h.tok.user_id

(* C1 as stated: update_contact, delete_contact, get_secret, update_secret *)
(* and delete_secret called by A with the id of a row of B answer 404 and  *)
(* leave the tables as they are, whatever the request carries.             *)
C1_OriginalStep ==
    LET A == resp'.uid IN
    Answered =>
    /\ ( /\ resp'.op \in {"update_contact", "delete_contact"}
         /\ A # 0
         /\ \E c \in contacts : c.id = resp'.id /\ c.user_id # A )
       => /\ resp'.status = 404
          /\ contacts' = contacts
    /\ ( /\ resp'.op \in {"get_secret", "update_secret", "delete_secret"}
         /\ A # 0
         /\ \E x \in secrets : x.id = resp'.id /\ x.user_id # A )
       => /\ resp'.status = 404
          /\ secrets' = secrets

C1_Original == [][C1_OriginalStep]_vars

(* C1: a request authenticated as user A never reads, changes or deletes a *)
(* row of another user B.  update_contact, delete_contact, get_secret,     *)
(* update_secret and delete_secret called by A with the id of a row of B   *)
(* answer 404 "... not found" with no body, as for an id that does not     *)
(* exist, and leave the tables as they are (update_secret with an empty    *)
(* title does not reach the lookup: it answers its 400 and changes         *)
(* nothing); get_contacts, export_contacts, get_secrets and get_secret     *)
(* answer only with rows of A.                                             *)
C1_Step ==
    LET A == resp'.uid IN
    Answered =>
    /\ ( /\ resp'.op \in {"update_contact", "delete_contact"}
         /\ A # 0
         /\ \E c \in contacts : c.id = resp'.id /\ c.user_id # A )
       => /\ resp'.status = 404
          /\ resp'.msg = "Contact not found"
          /\ resp'.body = NoBody
          /\ contacts' = contacts
    /\ ( /\ resp'.op \in {"get_secret", "update_secret", "delete_secret"}
         /\ A # 0
         /\ \E x \in secrets : x.id = resp'.id /\ x.user_id # A )
       => /\ IF resp'.op = "update_secret" /\ Falsy(resp'.req.title)
             THEN resp'.status = 400
             ELSE resp'.status = 404 /\ resp'.msg = "Secret not found"
          /\ resp'.body = NoBody
          /\ secrets' = secrets
    /\ (resp'.op = "get_contacts" /\ resp'.status = 200)
       => \A r \in resp'.body :
            \E c \in contacts :
                c.user_id = A /\ c.id = r.id /\ c.name = r.name /\ c.phone = r.phone
    /\ (resp'.op = "export_contacts" /\ resp'.status = 200)
       => \A r \in DOMAIN resp'.body :
            \E c \in contacts : c.user_id = A /\ c.name = r.name /\ c.phone = r.phone
    /\ (resp'.op = "get_secrets" /\ resp'.status = 200)
       => \A r \in resp'.body :
            \E x \in secrets : x.user_id = A /\ x.id = r.id /\ x.title = r.title
    /\ (resp'.op = "get_secret" /\ resp'.status = 200)
       => \E x \in secrets :
            x.user_id = A /\ x.id = resp'.body.id /\ x.password = resp'.body.password

C1_Isolation == [][C1_Step]_vars

(* A's update of a row of B was answered 404, and B's row is there.        *)
C1_Witness ==
    /\ resp.op = "update_contact"
    /\ resp.status = 404
    /\ resp.uid # 0
    /\ \E c \in contacts : c.id = resp.id /\ c.user_id # resp.uid
    /\ \E x \in secrets : x.user_id # resp.uid

(* C2: token_required calls the view only for a header whose token        *)
(* carries the server's signature, is not expired and names a user that    *)
(* exists when token_required looks, and calls it as that user; any other  *)
(* header is answered 401, the view is not called and the store is         *)
(* unchanged; and a protected route answers otherwise only through the     *)
(* view that was called.                                                   *)
C2_Step ==
    /\ Called
         => /\ Valid(NewCall.hdr)
            /\ NewCall.op \in ProtectedOps
            /\ NewCall.user.id = NewCall.hdr.tok.user_id
            /\ UNCHANGED <<store, resp>>
    /\ Refused
         => /\ ~Valid(resp'.hdr)
            /\ resp'.status = 401
            /\ resp'.uid = 0
            /\ UNCHANGED store
    /\ (resp'.op \in ProtectedOps /\ resp' # resp /\ ~Refused)
         => /\ Answered
            /\ resp'.op = OldCall.op
            /\ resp'.hdr = OldCall.hdr
            /\ resp'.uid = OldCall.user.id

C2_Gate == [][C2_Step]_vars

(* A write was refused for an expired token while rows exist.              *)
C2_Witness ==
    /\ resp.op = "delete_contact"
    /\ resp.status = 401
    /\ resp.msg = "Token has expired"
    /\ contacts # {}

(* C3 as stated: every token whose exp has passed is answered "Token has   *)
(* expired", whatever its signature.                                       *)
C3_OriginalStep ==
    /\ Called => now < NewCall.hdr.tok.exp
    /\ ( /\ Refused
         /\ resp'.hdr.present
         /\ resp'.hdr.tok.kind = "jwt"
         /\ resp'.hdr.tok.exp <= now )
       => (resp'.status = 401 /\ resp'.msg = "Token has expired")

C3_Original == [][C3_OriginalStep]_vars

(* C3, amended: a token with the server's signature whose exp has passed   *)
(* (exp <= now) is answered 401 "Token has expired"; a token whose         *)
(* signature does not verify is answered 401 "Invalid token", expired or   *)
(* not.  The view is called for neither.                                   *)
C3_Step ==
    /\ Called => (NewCall.hdr.tok.key = SecretKey /\ now < NewCall.hdr.tok.exp)
    /\ ( /\ Refused
         /\ resp'.hdr.present
         /\ resp'.hdr.tok.kind = "jwt" )
       => /\ (resp'.hdr.tok.key = SecretKey /\ resp'.hdr.tok.exp <= now)
               => (resp'.status = 401 /\ resp'.msg = "Token has expired")
          /\ resp'.hdr.tok.key # SecretKey
               => (resp'.status = 401 /\ resp'.msg = "Invalid token")

C3_Expired == [][C3_Step]_vars

(* A token of the server was refused on the day it expires.                *)
C3_Witness ==
    /\ resp.op = "current_user"
    /\ resp.msg = "Token has expired"
    /\ resp.hdr.tok.exp = now

(* C4: a registration (username and password given) of a username that is  *)
(* taken, admin included, is answered 400 "Username already exists"; it    *)
(* adds no user and hands out no token; and no two users ever share a      *)
(* username.                                                               *)
C4_Step ==
    ( /\ resp'.op = "register"
      /\ calls' = calls
      /\ \E x \in users : x.username = resp'.req.username )
    => /\ resp'.status = 400
       /\ ~FalsyStr(resp'.req.password) => resp'.msg = "Username already exists"
       /\ resp'.body = NoBody
       /\ users' = users
       /\ issued' = issued

C4_Duplicate ==
    /\ [][C4_Step]_vars
    /\ [](\A x, y \in users : x.username = y.username => x = y)

(* admin was registered again, and refused.                                *)
C4_Witness ==
    /\ resp.op = "register"
    /\ resp.req.username = "admin"
    /\ resp.msg = "Username already exists"

(* C5 as stated: update_contact of an own contact with an empty or missing *)
(* name or phone, and update_secret of an own secret with an empty or      *)
(* missing title, are answered 400 and leave the row unchanged.            *)
C5_Step ==
    ( /\ Answered
      /\ \/ /\ resp'.op = "update_contact"
            /\ \E c \in contacts : c.id = resp'.id /\ c.user_id = resp'.uid
            /\ Falsy(resp'.req.name) \/ Falsy(resp'.req.phone)
         \/ /\ resp'.op = "update_secret"
            /\ \E x \in secrets : x.id = resp'.id /\ x.user_id = resp'.uid
            /\ Falsy(resp'.req.title) )
    => /\ resp'.status = 400
       /\ contacts' = contacts
       /\ secrets' = secrets

C5_UpdateValidates == [][C5_Step]_vars

(* C6: every token handed out by register or login for username u is the  *)
(* token of the user of that name, valid for TokenDays days; presented     *)
(* (with or without the Bearer prefix) within those days and while the     *)
(* user exists, token_required does not refuse it and calls the view with  *)
(* that user, and GET /api/current_user answers username u.                *)
C6_Handed ==
    (resp.op \in {"register", "login"} /\ resp.status = 200)
    => /\ resp.body.username = resp.req.username
       /\ resp.body.token.exp = now + TokenDays
       /\ \E u \in users :
             u.username = resp.req.username /\ u.id = resp.body.token.user_id
       /\ \E i \in issued :
             i.tok = resp.body.token /\ i.username = resp.req.username /\ i.iat = now

C6_Step ==
    /\ \A i \in issued :
         /\ ( /\ Refused
              /\ resp'.hdr.present
              /\ resp'.hdr.tok = i.tok )
            => ~( /\ now < i.iat + TokenDays
                  /\ \E u \in users : u.id = i.tok.user_id )
         /\ (Called /\ NewCall.hdr.tok = i.tok)
            => NewCall.user = [id |-> i.tok.user_id, username |-> i.username]
    /\ (Answered /\ OldCall.op = "current_user")
       => /\ resp'.status = 200
          /\ resp'.uid = OldCall.user.id
          /\ resp'.body.username = OldCall.user.username

C6_RoundTrip == []C6_Handed /\ [][C6_Step]_vars

(* bob's token was accepted on the last day of its validity.               *)
C6_Witness ==
    /\ resp.op = "current_user"
    /\ resp.status = 200
    /\ resp.body.username = "bob"
    /\ \E i \in issued : i.tok = resp.hdr.tok /\ now = i.iat + TokenDays - 1

SensitiveFields == {"password", "api_key", "notes"}

(* C7 as stated: the listing of secrets never carries password, api_key or *)
(* notes, and get_secret answers with all fields of the record, the        *)
(* updated timestamp among them.                                           *)
C7_Original ==
    /\ (resp.op = "get_secrets" /\ resp.status = 200)
       => \A r \in resp.body : DOMAIN r \cap SensitiveFields = {}
    /\ (resp.op = "get_secret" /\ resp.status = 200)
       => {"title", "category", "username", "password", "api_key", "url", "notes",
           "created_at", "updated_at"} \subseteq DOMAIN resp.body

(* C7, amended: no row of the listing carries password, api_key or notes   *)
(* (the rows are id, title, category, username, url, created_at), and      *)
(* get_secret of an own secret answers with id, title, category, username, *)
(* password, api_key, url, notes and created_at as stored, and not with    *)
(* updated_at.                                                             *)
C7_Projection ==
    /\ (resp.op = "get_secrets" /\ resp.status = 200)
       => \A r \in resp.body :
            /\ DOMAIN r \cap SensitiveFields = {}
            /\ DOMAIN r = {"id", "title", "category", "username", "url", "created_at"}
    /\ (resp.op = "get_secret" /\ resp.status = 200)
       => /\ DOMAIN resp.body =
                {"id", "title", "category", "username", "password", "api_key", "url",
                 "notes", "created_at"}
          /\ \E x \in secrets :
                /\ x.id = resp.id
                /\ x.user_id = resp.uid
                /\ \A f \in DOMAIN resp.body : resp.body[f] = x[f]

(* A secret with a password, an api_key and notes was listed.              *)
C7_Witness ==
    /\ resp.op = "get_secrets"
    /\ resp.status = 200
    /\ \E r \in resp.body :
         \E x \in secrets :
            x.id = r.id /\ x.password # "" /\ x.api_key # "" /\ x.notes # ""

(* The contact created by the request answered in resp.                    *)
Created == {c \in contacts : c.id = contactSeq}

(* C8 as stated: the listing that follows a create, with the name as the   *)
(* search text, is exactly the created contact; the listing that follows   *)
(* an update shows the new phone; and after a delete an update or a delete *)
(* of that id answers 404.                                                 *)
C8_OriginalStep ==
    ( /\ resp.op = "add_contact"
      /\ resp.status = 200
      /\ resp'.op = "get_contacts"
      /\ resp'.status = 200
      /\ resp'.uid = resp.uid
      /\ resp'.req.search = resp.req.name )
    => resp'.body =
         {[id |-> c.id, name |-> c.name, phone |-> c.phone, address |-> c.address] :
            c \in Created}

C8_UpdateStep ==
    ( /\ resp.op = "update_contact"
      /\ resp.status = 200
      /\ resp'.op = "get_contacts"
      /\ resp'.status = 200
      /\ resp'.uid = resp.uid
      /\ resp'.req.search = <<>> )
    => \E r \in resp'.body : r.id = resp.id /\ r.phone = resp.req.phone

C8_DeleteStep ==
    ( /\ resp.op = "delete_contact"
      /\ resp.status = 200
      /\ resp'.op \in {"update_contact", "delete_contact"}
      /\ resp'.uid = resp.uid
      /\ resp'.id = resp.id )
    => resp'.status = 404

C8_Original == [][C8_OriginalStep /\ C8_UpdateStep /\ C8_DeleteStep]_vars

HasBackslash(text) == \E k \in 1..Len(text) : text[k] = "\\"

(* What does hold of the round trip.  (1) The listing that follows a       *)
(* create, with the name as the search text, holds only contacts of that   *)
(* owner, and the created contact among them when the name has no          *)
(* backslash: exactly it when it is the owner's only contact.  (2) The     *)
(* listing that follows an update of a contact shows it with the new name  *)
(* and phone.  (3) A delete removes the contact, its id is never given     *)
(* again, and an update or a delete of an id with no contact of the caller *)
(* answers 404 and changes nothing.                                        *)
RoundTripStep ==
    /\ ( /\ resp.op = "add_contact"
         /\ resp.status = 200
         /\ resp'.op = "get_contacts"
         /\ resp'.status = 200
         /\ resp'.uid = resp.uid
         /\ resp'.req.search = resp.req.name )
       => /\ \A r \in resp'.body :
                \E c \in contacts : c.id = r.id /\ c.user_id = resp.uid
          /\ ~HasBackslash(resp.req.name)
                => \A c \in Created :
                     /\ \E r \in resp'.body :
                           r.id = c.id /\ r.name = resp.req.name /\ r.phone = resp.req.phone
                     /\ (\A d \in contacts : d.user_id = resp.uid => d = c)
                           => Cardinality(resp'.body) = 1
    /\ ( /\ resp.op = "update_contact"
         /\ resp.status = 200
         /\ resp'.op = "get_contacts"
         /\ resp'.status = 200
         /\ resp'.uid = resp.uid
         /\ resp'.req.search = <<>> )
       => \E r \in resp'.body :
            r.id = resp.id /\ r.name = resp.req.name /\ r.phone = resp.req.phone
    /\ (Answered /\ resp'.op = "delete_contact" /\ resp'.status = 200)
       => \A c \in contacts' : c.id # resp'.id
    /\ \A c \in contacts' \ contacts :
         \/ c.id > contactSeq
         \/ \E d \in contacts : d.id = c.id /\ d.user_id = c.user_id
    /\ ( /\ Answered
         /\ resp'.op \in {"update_contact", "delete_contact"}
         /\ \A c \in contacts : ~(c.id = resp'.id /\ c.user_id = resp'.uid) )
       => /\ resp'.status = 404
          /\ contacts' = contacts

RoundTrip == [][RoundTripStep]_vars

(* A search for the name of a contact was answered with two contacts.      *)
TwoMatches ==
    /\ resp.op = "get_contacts"
    /\ resp.status = 200
    /\ resp.req.search = NameA
    /\ Cardinality(resp.body) = 2
    /\ \E r \in resp.body : r.name = NameA

(* C9: logout changes nothing on the server, and a token the server       *)
(* handed out, presented after a logout, is not refused by token_required  *)
(* as long as it is not expired and its user exists: the view is called as *)
(* the token's user.                                                       *)
C9_Step ==
    /\ (resp'.op = "logout" /\ calls' = calls)
       => resp'.status = 200 /\ UNCHANGED <<store, now, issued, openConns>>
    /\ \A i \in issued :
         /\ ( /\ resp.op = "logout"
              /\ Refused
              /\ resp'.hdr.present
              /\ resp'.hdr.tok = i.tok )
            => ~( /\ now < i.tok.exp
                  /\ \E u \in users : u.id = i.tok.user_id )
         /\ ( /\ resp.op = "logout"
              /\ Called
              /\ NewCall.hdr.tok = i.tok )
            => NewCall.user.id = i.tok.user_id

C9_LogoutNoOp == [][C9_Step]_vars

(* With a logout as the last response, a token sent without the Bearer     *)
(* prefix was accepted on the last day of its validity.                    *)
C9_Witness ==
    /\ resp.op = "logout"
    /\ \E c \in BagToSet(calls) :
         /\ ~c.hdr.bearer
         /\ \E i \in issued : i.tok = c.hdr.tok /\ now = i.tok.exp - 1

(* C10 as stated: no request ends with a connection still open.            *)
C10_Released == openConns = 0

=============================================================================
